---- MODULE Spec2Model ----
(***************************************************************************)
(* The training driver src/discrete_driver.py (runner) as a state machine. *)
(* One behaviour is a sequence of driver processes (runs) sharing the      *)
(* files on disk: the pickled checkpoint record and the agent's model.     *)
(* Each call the driver makes to a collaborator (environment, encoder,     *)
(* agent, pickle, writer) is one step of the machine.                      *)
(***************************************************************************)
EXTENDS Integers, Sequences, FiniteSets, TLC

\* ------------------------------------------------------------- bounds
\* EPISODES and the replay buffer size come from parameters.py and the agent;
\* the values here bound the model.
EPISODES == 40
BufferSize == 2
\* Driver processes started in one behaviour.
MaxRuns == 2
\* Environment/agent outcomes other than the plain one (reward 0, done,
\* epsilon unchanged) in one behaviour.
MaxEvents == 1

\* --------------------------------------------------- program constants
n_actions == 7
SaveEvery == 20
ScoreWindow == 20
LengthDivisor == 20

ExpNames == {"ddqn", "ppo", "omitted"}
Rewards == {0, 1}
\* Values of --total-episodes: the default, and a smaller one given on the
\* command line.
TotalEpisodesArgs == {EPISODES, EPISODES \div 2}
EpsilonStart == MaxEvents + 1
CounterCap == BufferSize + MaxEvents + 1

NoFile == [epoch |-> -1, cumulative_score |-> <<0, 0>>, epsilon |-> -1]
None == <<0, 0>>
NoObs == <<"none", 0>>
NoScalars == [step |-> 0, reward |-> <<0, 0>>, cumulative |-> <<0, 0>>,
              length |-> <<0, 0>>, epsilon |-> -1]
NoTransition == [observation |-> NoObs, action |-> -1, reward |-> 0,
                 new_observation |-> NoObs, done |-> -1]

VARIABLES
    \* files on disk
    ckpt,               \* checkpoints/checkpoint_ddqn.pickle
    ckptTotal,          \* history: reward total of the episodes the record covers
    \* the running process
    run, pc, exp_name, checkpoint_load, total_episodes, client,
    epoch, cumulative_score, scores, episodic_length, step,
    done, observation, action, new_observation, reward, score, ticks,
    epsilon, counter,
    \* the simulator
    envState, frame, events,
    \* history variables (per run unless said otherwise)
    envMisuse, nGet, nStep, nSave, nLearn, chosenOn, lastTransition,
    calledGetAction, calledLearn, envCalls, warmSaved, setupFailed,
    agentCreated, ckptLoaded, contacted, trainedEps,
    lastSaveStep, lastDumpStep, lastLogStep,
    windowEps, windowTicks, windowReward, scoreEps, lineageTotal,
    logged              \* the scalars last handed to the SummaryWriter

diskVars == <<ckpt, ckptTotal>>
cfgVars == <<run, exp_name, checkpoint_load, total_episodes>>
progVars == <<epoch, cumulative_score, scores, episodic_length, step>>
iterVars == <<done, observation, action, new_observation, reward, score, ticks>>
agentVars == <<epsilon, counter>>
envVars == <<envState, frame, events>>
callHist == <<envMisuse, nGet, nStep, nSave, nLearn, chosenOn,
              lastTransition, calledGetAction, calledLearn, envCalls, warmSaved>>
setupHist == <<setupFailed, agentCreated, ckptLoaded, contacted>>
saveHist == <<lastSaveStep, lastDumpStep, lastLogStep>>
winHist == <<windowEps, windowTicks, windowReward, scoreEps, logged>>

vars == <<diskVars, cfgVars, pc, client, progVars, iterVars, agentVars, envVars,
          callHist, setupHist, trainedEps, saveHist, winHist, lineageTotal>>

\* ------------------------------------------------------------ helpers
RECURSIVE GCD(_, _)
GCD(a, b) == IF b = 0 THEN a ELSE GCD(b, a % b)

Abs(x) == IF x < 0 THEN -x ELSE x

\* Exact fractions <<numerator, denominator>> stand for the floats.
RNorm(q) ==
    LET g == GCD(Abs(q[1]), q[2])
    IN <<q[1] \div g, q[2] \div g>>

RMulInt(q, k) == RNorm(<<q[1] * k, q[2]>>)
RAddInt(q, k) == RNorm(<<q[1] + k * q[2], q[2]>>)
RDivInt(q, k) == RNorm(<<q[1], q[2] * k>>)

RECURSIVE SumSeq(_)
SumSeq(s) == IF s = <<>> THEN 0 ELSE Head(s) + SumSeq(Tail(s))

\* np.mean(s) of a non-empty list
Mean(s) == RNorm(<<SumSeq(s), Len(s)>>)

\* s[-n:]
LastN(s, n) == IF Len(s) <= n THEN s ELSE SubSeq(s, Len(s) - n + 1, Len(s))

Range(a, b) == [i \in 1..(b - a + 1) |-> a + i - 1]

\* encode.process(observation): the latent code of a frame
Encode(o) == <<"latent", o[2]>>

Active == pc \notin {"idle", "finished", "error", "interrupted"}

\* ------------------------------------------------ the driver's decisions
\* line 49-56: run_name is bound only for 'ddqn'; SummaryWriter(f"runs/{run_name}")
\* raises UnboundLocalError otherwise.
RunNameBound_Always(name) == TRUE
RunNameBound(name) == name = "ddqn"

\* line 110-120: client and world are bound only if setup() returned;
\* CarlaEnvironment(client, world) raises UnboundLocalError otherwise.
EnvConstructible_Always(c) == TRUE
EnvConstructible(c) == c = "connected"

\* line 127-128
WarmupNeeded_NoLoad(name, load, cnt) == name = "ddqn" /\ cnt < BufferSize
WarmupNeeded(name, load, cnt) == name = "ddqn" /\ load /\ cnt < BufferSize

\* line 146: range(epoch+1, EPISODES+1)
RangeStart_Inclusive(e) == e
RangeStart(e) == e + 1
RangeStop == EPISODES + 1

\* line 132, 159: while not done
LoopContinues_Always(d) == TRUE
LoopContinues(d) == ~d

\* line 136, 166: the arguments of agent.save_transition
TransitionOf_NewObs(obs, a, r, nobs, d) ==
    [observation |-> nobs, action |-> a, reward |-> r,
     new_observation |-> nobs, done |-> IF d THEN 1 ELSE 0]
TransitionOf(obs, a, r, nobs, d) ==
    [observation |-> obs, action |-> a, reward |-> r,
     new_observation |-> nobs, done |-> IF d THEN 1 ELSE 0]

\* line 179
IncrementalMean_NoDecrement(c, st, sc) == RDivInt(RAddInt(RMulInt(c, st), sc), st)
IncrementalMean(c, st, sc) == RDivInt(RAddInt(RMulInt(c, st - 1), sc), st)

\* line 185
CheckpointDue(st) == st >= SaveEvery /\ st % SaveEvery = 0

\* line 189
CheckpointRecord_StaleEpoch(cum, eps, st) ==
    [epoch |-> st - 1, cumulative_score |-> cum, epsilon |-> eps]
CheckpointRecord(cum, eps, st) ==
    [epoch |-> st, cumulative_score |-> cum, epsilon |-> eps]

\* line 193: scores[-20:]
WindowScores(sc) == LastN(sc, ScoreWindow)

\* line 198
LengthAfterLog_Keep(len) == len
LengthAfterLog(len) == 0

\* agent.get_action(observation): one of the n_actions actions, decided by the
\* observation.
Policy(obs) == obs[2] % n_actions

\* What one env.step() can return, within the bound on events.
StepOutcomes ==
    {o \in [reward : Rewards, done : BOOLEAN] :
        events + (IF o.reward # 0 THEN 1 ELSE 0) + (IF o.done THEN 0 ELSE 1)
            <= MaxEvents}
OutcomeCost(o) == (IF o.reward # 0 THEN 1 ELSE 0) + (IF o.done THEN 0 ELSE 1)

\* What agent.learn() can leave in agent.epsilon, within the bound on events.
EpsilonAfterLearn ==
    {epsilon} \cup (IF events < MaxEvents /\ epsilon > 0 THEN {epsilon - 1} ELSE {})

\* replay_buffer.counter after one save_transition (saturating in the model).
CounterAfterSave(c) == IF c < CounterCap THEN c + 1 ELSE c

\* The environment's own view of a call.
MisuseOnStep == IF envState = "running" THEN envMisuse
                ELSE IF envState = "done" THEN "step_after_done"
                ELSE "step_before_reset"
MisuseOnReset == IF envState = "running" THEN "reset_before_done"
                 ELSE envMisuse

\* ---------------------------------------------------------------- Init
Init ==
    /\ ckpt = NoFile /\ ckptTotal = 0
    /\ run = 0 /\ pc = "idle" /\ exp_name = "omitted"
    /\ checkpoint_load = FALSE /\ total_episodes = EPISODES
    /\ client = "unbound"
    /\ epoch = 0 /\ cumulative_score = None /\ scores = <<>>
    /\ episodic_length = 0 /\ step = 0
    /\ done = FALSE /\ observation = NoObs /\ action = -1
    /\ new_observation = NoObs /\ reward = 0 /\ score = 0 /\ ticks = 0
    /\ epsilon = -1 /\ counter = 0
    /\ envState = "absent" /\ frame = 0 /\ events = 0
    /\ envMisuse = "none" /\ nGet = 0 /\ nStep = 0 /\ nSave = 0 /\ nLearn = 0
    /\ chosenOn = NoObs /\ lastTransition = NoTransition
    /\ calledGetAction = FALSE /\ calledLearn = FALSE /\ envCalls = FALSE
    /\ warmSaved = FALSE
    /\ setupFailed = FALSE /\ agentCreated = FALSE /\ ckptLoaded = FALSE
    /\ contacted = FALSE /\ trainedEps = 0
    /\ lastSaveStep = 0 /\ lastDumpStep = 0 /\ lastLogStep = 0
    /\ windowEps = <<>> /\ windowTicks = 0 /\ windowReward = 0
    /\ scoreEps = <<>> /\ logged = NoScalars
    /\ lineageTotal = 0

\* ------------------------------------------------------------- actions
\* The memory of a process that has not run yet, or is gone.
FreshMemory ==
    /\ client' = "unbound"
    /\ epoch' = 0 /\ cumulative_score' = None /\ scores' = <<>>
    /\ episodic_length' = 0 /\ step' = 0
    /\ done' = FALSE /\ observation' = NoObs /\ action' = -1
    /\ new_observation' = NoObs /\ reward' = 0 /\ score' = 0 /\ ticks' = 0
    /\ epsilon' = -1 /\ counter' = 0
    /\ envState' = "absent" /\ frame' = 0
    /\ envMisuse' = "none" /\ nGet' = 0 /\ nStep' = 0 /\ nSave' = 0 /\ nLearn' = 0
    /\ chosenOn' = NoObs /\ lastTransition' = NoTransition
    /\ calledGetAction' = FALSE /\ calledLearn' = FALSE /\ envCalls' = FALSE
    /\ warmSaved' = FALSE
    /\ setupFailed' = FALSE /\ agentCreated' = FALSE /\ ckptLoaded' = FALSE
    /\ contacted' = FALSE /\ trainedEps' = 0
    /\ lastSaveStep' = 0 /\ lastDumpStep' = 0 /\ lastLogStep' = 0
    /\ windowEps' = <<>> /\ windowTicks' = 0 /\ windowReward' = 0
    /\ scoreEps' = <<>> /\ logged' = NoScalars
    /\ lineageTotal' = 0

\* A new driver process: parse_args (line 20-35, 45-46) and the import of
\* parameters.py (MODEL_LOAD). Nothing but the files survives the old one.
StartRun ==
    /\ ~Active /\ run < MaxRuns
    /\ run' = run + 1
    /\ \E name \in ExpNames, load \in BOOLEAN, total \in TotalEpisodesArgs :
          /\ exp_name' = name
          /\ checkpoint_load' = load
          /\ total_episodes' = total
    /\ pc' = "setup_logging"
    /\ FreshMemory
    /\ UNCHANGED <<diskVars, events>>

\* line 47-77: run name, SummaryWriter, seeding.
SetupLogging ==
    /\ pc = "setup_logging"
    /\ pc' = IF RunNameBound(exp_name) THEN "init_agent" ELSE "error"
    /\ UNCHANGED <<diskVars, cfgVars, client, progVars, iterVars, agentVars,
                   envVars, callHist, setupHist, trainedEps, saveHist, winHist,
                   lineageTotal>>

\* line 84-94: DQNAgent(n_actions) and the driver's own progress variables.
InitAgent ==
    /\ pc = "init_agent"
    /\ epsilon' = EpsilonStart /\ counter' = 0
    /\ agentCreated' = TRUE
    /\ cumulative_score' = None /\ scores' = <<>>
    /\ episodic_length' = 0 /\ epoch' = 0
    /\ pc' = "load_checkpoint"
    /\ UNCHANGED <<diskVars, cfgVars, client, step, iterVars, envVars, callHist,
                   setupFailed, ckptLoaded, contacted, trainedEps, saveHist,
                   winHist, lineageTotal>>

\* line 96-103: agent.load_model() and pickle.load of the checkpoint record.
LoadCheckpoint ==
    /\ pc = "load_checkpoint"
    /\ IF checkpoint_load /\ exp_name = "ddqn"
       THEN IF ckpt = NoFile
            THEN /\ pc' = "error"
                 /\ UNCHANGED <<epoch, cumulative_score, epsilon, ckptLoaded,
                                lineageTotal>>
            ELSE /\ epoch' = ckpt.epoch
                 /\ cumulative_score' = ckpt.cumulative_score
                 /\ epsilon' = ckpt.epsilon
                 /\ ckptLoaded' = TRUE
                 /\ lineageTotal' = ckptTotal
                 /\ pc' = "connect"
       ELSE /\ pc' = "connect"
            /\ UNCHANGED <<epoch, cumulative_score, epsilon, ckptLoaded,
                           lineageTotal>>
    /\ UNCHANGED <<diskVars, cfgVars, client, scores, episodic_length, step,
                   iterVars, counter, envVars, callHist, setupFailed,
                   agentCreated, contacted, trainedEps, saveHist, winHist>>

\* line 109-118: ClientConnection().setup(); a failure is logged and swallowed.
Connect ==
    /\ pc = "connect"
    /\ \E ok \in BOOLEAN :
          /\ client' = IF ok THEN "connected" ELSE "unbound"
          /\ setupFailed' = ~ok
    /\ contacted' = TRUE
    /\ pc' = "create_env"
    /\ UNCHANGED <<diskVars, cfgVars, progVars, iterVars, agentVars, envVars,
                   callHist, agentCreated, ckptLoaded, trainedEps, saveHist,
                   winHist, lineageTotal>>

\* line 120-121: CarlaEnvironment(client, world), EncodeState(LATENT_DIM).
CreateEnv ==
    /\ pc = "create_env"
    /\ IF EnvConstructible(client)
       THEN pc' = "warmup_head" /\ envState' = "fresh"
       ELSE pc' = "error" /\ UNCHANGED envState
    /\ UNCHANGED <<diskVars, cfgVars, client, progVars, iterVars, agentVars,
                   frame, events, callHist, setupHist, trainedEps, saveHist,
                   winHist, lineageTotal>>

\* line 127-128: the tests guarding the memory-filling loop; on exit the range
\* iterator of line 146 is created, positioned before its first value.
WarmupHead ==
    /\ pc = "warmup_head"
    /\ IF WarmupNeeded(exp_name, checkpoint_load, counter)
       THEN pc' = "w_reset" /\ UNCHANGED step
       ELSE pc' = "loop_head" /\ step' = RangeStart(epoch) - 1
    /\ UNCHANGED <<diskVars, cfgVars, client, epoch, cumulative_score, scores,
                   episodic_length, iterVars, agentVars, envVars, callHist,
                   setupHist, trainedEps, saveHist, winHist, lineageTotal>>

\* line 129-131
WarmupReset ==
    /\ pc = "w_reset"
    /\ envMisuse' = MisuseOnReset
    /\ envState' = "running" /\ frame' = 0
    /\ observation' = Encode(<<"frame", 0>>)
    /\ done' = FALSE
    /\ nStep' = 0 /\ nSave' = 0
    /\ envCalls' = TRUE
    /\ pc' = "w_step"
    /\ UNCHANGED <<diskVars, cfgVars, client, progVars, action, new_observation,
                   reward, score, ticks, agentVars, events, nGet, nLearn,
                   chosenOn, lastTransition, calledGetAction, calledLearn,
                   warmSaved, setupHist, trainedEps, saveHist, winHist,
                   lineageTotal>>

\* line 132-137: one pass of the inner loop with a random action.
WarmupStep ==
    /\ pc = "w_step"
    /\ \E a \in 0..(n_actions - 1), o \in StepOutcomes :
          /\ action' = a
          /\ reward' = o.reward /\ done' = o.done
          /\ events' = events + OutcomeCost(o)
          /\ new_observation' = Encode(<<"frame", frame + 1>>)
          /\ lastTransition' =
                TransitionOf(observation, a, o.reward,
                             Encode(<<"frame", frame + 1>>), o.done)
          /\ envState' = IF o.done THEN "done" ELSE "running"
          /\ pc' = IF LoopContinues(o.done) THEN "w_step" ELSE "warmup_head"
    /\ envMisuse' = MisuseOnStep
    /\ frame' = frame + 1
    /\ observation' = Encode(<<"frame", frame + 1>>)
    /\ counter' = CounterAfterSave(counter)
    /\ nStep' = nStep + 1 /\ nSave' = nSave + 1
    /\ warmSaved' = TRUE /\ envCalls' = TRUE
    /\ UNCHANGED <<diskVars, cfgVars, client, progVars, score, ticks, epsilon,
                   nGet, nLearn, chosenOn, calledGetAction, calledLearn,
                   setupHist, trainedEps, saveHist, winHist, lineageTotal>>

\* line 146-148: the for statement takes the next value of the range.
LoopHead ==
    /\ pc = "loop_head"
    /\ IF step + 1 < RangeStop
       THEN /\ step' = step + 1
            /\ trainedEps' = trainedEps + 1
            /\ pc' = "t_reset"
       ELSE /\ pc' = "finished"
            /\ UNCHANGED <<step, trainedEps>>
    /\ UNCHANGED <<diskVars, cfgVars, client, epoch, cumulative_score, scores,
                   episodic_length, iterVars, agentVars, envVars, callHist,
                   setupHist, saveHist, winHist, lineageTotal>>

\* line 151-157
TrainReset ==
    /\ pc = "t_reset"
    /\ done' = FALSE
    /\ envMisuse' = MisuseOnReset
    /\ envState' = "running" /\ frame' = 0
    /\ observation' = Encode(<<"frame", 0>>)
    /\ score' = 0 /\ ticks' = 0
    /\ nGet' = 0 /\ nStep' = 0 /\ nSave' = 0 /\ nLearn' = 0
    /\ envCalls' = TRUE
    /\ pc' = "get_action"
    /\ UNCHANGED <<diskVars, cfgVars, client, progVars, action, new_observation,
                   reward, agentVars, events, chosenOn, lastTransition,
                   calledGetAction, calledLearn, warmSaved, setupHist,
                   trainedEps, saveHist, winHist, lineageTotal>>

\* line 161
GetAction ==
    /\ pc = "get_action"
    /\ action' = Policy(observation)
    /\ chosenOn' = observation
    /\ nGet' = nGet + 1 /\ calledGetAction' = TRUE
    /\ pc' = "env_step"
    /\ UNCHANGED <<diskVars, cfgVars, client, progVars, done, observation,
                   new_observation, reward, score, ticks, agentVars, envVars,
                   envMisuse, nStep, nSave, nLearn, lastTransition, calledLearn,
                   envCalls, warmSaved, setupHist, trainedEps, saveHist,
                   winHist, lineageTotal>>

\* line 162
EnvStep ==
    /\ pc = "env_step"
    /\ \E o \in StepOutcomes :
          /\ reward' = o.reward /\ done' = o.done
          /\ events' = events + OutcomeCost(o)
          /\ envState' = IF o.done THEN "done" ELSE "running"
          /\ lineageTotal' = lineageTotal + o.reward
          /\ windowReward' = windowReward + o.reward
    /\ envMisuse' = MisuseOnStep
    /\ frame' = frame + 1
    /\ new_observation' = <<"frame", frame + 1>>
    /\ ticks' = ticks + 1
    /\ nStep' = nStep + 1 /\ envCalls' = TRUE
    /\ windowTicks' = windowTicks + 1
    /\ pc' = "process"
    /\ UNCHANGED <<diskVars, cfgVars, client, progVars, observation, action,
                   score, agentVars, nGet, nSave, nLearn, chosenOn,
                   lastTransition, calledGetAction, calledLearn, warmSaved,
                   setupHist, trainedEps, saveHist, windowEps, scoreEps,
                   logged>>

\* line 163-164
Process ==
    /\ pc = "process"
    /\ new_observation' = Encode(new_observation)
    /\ score' = score + reward
    /\ pc' = "save_transition"
    /\ UNCHANGED <<diskVars, cfgVars, client, progVars, done, observation,
                   action, reward, ticks, agentVars, envVars, callHist,
                   setupHist, trainedEps, saveHist, winHist, lineageTotal>>

\* line 166
SaveTransition ==
    /\ pc = "save_transition"
    /\ lastTransition' =
          TransitionOf(observation, action, reward, new_observation, done)
    /\ counter' = CounterAfterSave(counter)
    /\ nSave' = nSave + 1
    /\ pc' = "learn"
    /\ UNCHANGED <<diskVars, cfgVars, client, progVars, iterVars, epsilon,
                   envVars, envMisuse, nGet, nStep, nLearn, chosenOn,
                   calledGetAction, calledLearn, envCalls, warmSaved, setupHist,
                   trainedEps, saveHist, winHist, lineageTotal>>

\* line 167-169, and the loop test of line 159
Learn ==
    /\ pc = "learn"
    /\ \E e \in EpsilonAfterLearn :
          /\ epsilon' = e
          /\ events' = events + (IF e = epsilon THEN 0 ELSE 1)
    /\ nLearn' = nLearn + 1 /\ calledLearn' = TRUE
    /\ observation' = new_observation
    /\ pc' = IF LoopContinues(done) THEN "get_action" ELSE "episode_end"
    /\ UNCHANGED <<diskVars, cfgVars, client, progVars, done, action,
                   new_observation, reward, score, ticks, counter, envState,
                   frame, envMisuse, nGet, nStep, nSave, chosenOn,
                   lastTransition, calledGetAction, envCalls, warmSaved,
                   setupHist, trainedEps, saveHist, winHist, lineageTotal>>

\* line 171-185: episode length, score list, running average, and the test
\* for a checkpoint. cumulative_score is None in a resumed run that loaded no
\* record: None * int raises TypeError.
EpisodeEnd ==
    /\ pc = "episode_end"
    /\ episodic_length' = episodic_length + Abs(ticks)
    /\ scores' = Append(scores, score)
    /\ scoreEps' = Append(scoreEps, step)
    /\ windowEps' = Append(windowEps, step)
    /\ IF checkpoint_load /\ cumulative_score = None
       THEN pc' = "error" /\ UNCHANGED cumulative_score
       ELSE /\ cumulative_score' =
                  IF checkpoint_load
                  THEN IncrementalMean(cumulative_score, step, score)
                  ELSE Mean(Append(scores, score))
            /\ pc' = IF CheckpointDue(step) THEN "save_model" ELSE "loop_head"
    /\ UNCHANGED <<diskVars, cfgVars, client, epoch, step, iterVars, agentVars,
                   envVars, callHist, setupHist, trainedEps, saveHist,
                   windowTicks, windowReward, logged, lineageTotal>>

\* line 186
SaveModel ==
    /\ pc = "save_model"
    /\ lastSaveStep' = step
    /\ pc' = IF exp_name = "ddqn" THEN "dump" ELSE "log"
    /\ UNCHANGED <<diskVars, cfgVars, client, progVars, iterVars,
                   agentVars, envVars, callHist, setupHist, trainedEps,
                   lastDumpStep, lastLogStep, winHist, lineageTotal>>

\* line 188-191
DumpCheckpoint ==
    /\ pc = "dump"
    /\ ckpt' = CheckpointRecord(cumulative_score, epsilon, step)
    /\ ckptTotal' = lineageTotal
    /\ lastDumpStep' = step
    /\ pc' = "log"
    /\ UNCHANGED <<cfgVars, client, progVars, iterVars, agentVars,
                   envVars, callHist, setupHist, trainedEps, lastSaveStep,
                   lastLogStep, winHist, lineageTotal>>

\* line 193-198
LogScalars ==
    /\ pc = "log"
    /\ logged' = [step |-> step,
                  reward |-> Mean(WindowScores(scores)),
                  cumulative |-> cumulative_score,
                  length |-> RNorm(<<episodic_length, LengthDivisor>>),
                  epsilon |-> epsilon]
    /\ episodic_length' = LengthAfterLog(episodic_length)
    /\ lastLogStep' = step
    /\ windowEps' = <<>> /\ windowTicks' = 0 /\ windowReward' = 0
    /\ pc' = "loop_head"
    /\ UNCHANGED <<diskVars, cfgVars, client, epoch, cumulative_score, scores,
                   step, iterVars, agentVars, envVars, callHist, setupHist,
                   trainedEps, lastSaveStep, lastDumpStep, scoreEps,
                   lineageTotal>>

\* line 212-213: KeyboardInterrupt (or the process being killed) ends the run
\* wherever it is; only the files outlive it.
Interrupt ==
    /\ Active
    /\ pc' = "interrupted"
    /\ FreshMemory
    /\ UNCHANGED <<diskVars, cfgVars, events>>

Next ==
    \/ StartRun \/ SetupLogging \/ InitAgent \/ LoadCheckpoint \/ Connect
    \/ CreateEnv \/ WarmupHead \/ WarmupReset \/ WarmupStep \/ LoopHead
    \/ TrainReset \/ GetAction \/ EnvStep \/ Process \/ SaveTransition
    \/ Learn \/ EpisodeEnd \/ SaveModel \/ DumpCheckpoint \/ LogScalars
    \/ Interrupt

Spec == Init /\ [][Next]_vars

\* ============================================================== claims
WarmPcs == {"w_reset", "w_step"}
EpisodePcs == {"t_reset", "get_action", "env_step", "process",
               "save_transition", "learn", "episode_end"}
AfterEpisodePcs == {"save_model", "dump", "log"}
TrainPcs == EpisodePcs \cup AfterEpisodePcs
LoopPcs == TrainPcs \cup {"loop_head", "finished"}

\* The last episode of this run whose whole loop body has been executed.
Completed == IF pc \in {"loop_head", "finished"} THEN step ELSE step - 1

\* The last positive multiple of 20 among the episodes epoch+1..n; 0 if none.
LastDue(n) == IF (n \div 20) * 20 > epoch THEN (n \div 20) * 20 ELSE 0

\* C1: with exp_name 'ddqn', a checkpoint record is written after episode
\* `step` exactly when step is a positive multiple of 20; the record holds
\* epoch = step, the running average after that episode and agent.epsilon at
\* that moment; agent.save_model() is called at exactly those episodes, before
\* the record is written.
C1_CheckpointEvery20 ==
    (pc \in LoopPcs /\ exp_name = "ddqn") =>
        /\ lastDumpStep = LastDue(IF pc = "log" THEN step ELSE Completed)
        /\ lastSaveStep = LastDue(IF pc \in {"dump", "log"} THEN step ELSE Completed)
        /\ pc = "dump" => (lastSaveStep = step /\ lastDumpStep < step)
        /\ pc = "log" =>
              ckpt = [epoch |-> step, cumulative_score |-> cumulative_score,
                      epsilon |-> epsilon]
        /\ pc \in AfterEpisodePcs => (step >= 20 /\ step % 20 = 0)

C1_Witness ==
    /\ pc = "log" /\ step = 40 /\ ckpt.epoch = 40
    /\ ckpt.epsilon < EpsilonStart

C3_EpisodeIsResetToDone ==
    /\ envMisuse = "none"
    /\ pc \in {"get_action", "env_step", "w_step"} => (envState = "running" /\ ~done)
    /\ pc \in {"episode_end"} \cup AfterEpisodePcs =>
          (envState = "done" /\ done /\ nStep >= 1)
    /\ (pc = "loop_head" /\ trainedEps >= 1) => (envState = "done" /\ nStep >= 1)
    /\ (pc = "warmup_head" /\ envCalls) => (envState = "done" /\ nStep >= 1)
    /\ pc \in {"t_reset", "w_reset"} => envState \in {"fresh", "done"}

C3_Witness == pc = "episode_end" /\ nStep = 2 /\ envState = "done"

\* C4: the training loop runs the episodes epoch+1 .. args.total_episodes and
\* stops there.
C4_TotalEpisodesArgument ==
    /\ pc \in TrainPcs => step <= total_episodes
    /\ pc = "finished" =>
          step = IF epoch >= total_episodes THEN epoch ELSE total_episodes

\* C5: in a training episode the calls go get_action, env.step, encode.process,
\* save_transition, learn; the call counts differ by at most one and agree at
\* the episode boundary; the saved transition carries the observation the
\* action was chosen on and the done flag of the step; the next action is
\* chosen on the new observation of the previous step.
C5_StepOrder ==
    /\ pc = "get_action" => (nGet = nStep /\ nStep = nSave /\ nSave = nLearn)
    /\ pc = "env_step" => (nGet = nStep + 1 /\ nStep = nSave /\ nSave = nLearn)
    /\ pc \in {"process", "save_transition"} =>
          (nGet = nStep /\ nStep = nSave + 1 /\ nSave = nLearn)
    /\ pc = "learn" => (nGet = nStep /\ nStep = nSave /\ nSave = nLearn + 1)
    /\ pc = "episode_end" =>
          (nGet = nStep /\ nStep = nSave /\ nSave = nLearn /\ nLearn >= 1)
    /\ pc = "learn" =>
          /\ lastTransition.observation = chosenOn
          /\ lastTransition.action = action
          /\ lastTransition.reward = reward
          /\ lastTransition.new_observation = new_observation
          /\ lastTransition.done = (IF done THEN 1 ELSE 0)
          /\ new_observation = <<"latent", frame>>
    /\ pc = "env_step" =>
          /\ chosenOn = <<"latent", frame>>
          /\ nStep >= 1 => chosenOn = lastTransition.new_observation

C5_Witness ==
    /\ pc = "learn" /\ nStep = 2 /\ done
    /\ lastTransition.observation = <<"latent", 1>>

\* C6: the memory-filling loop runs only with exp_name 'ddqn' and MODEL_LOAD
\* true, is over before the first training episode, never calls get_action or
\* learn, draws its actions from 0..6, runs whole episodes, and leaves
\* replay_buffer.counter >= buffer_size; with MODEL_LOAD false no warm-up
\* transition is saved and training starts with the buffer as created.
C6_WarmupLoop ==
    /\ pc \in WarmPcs => (exp_name = "ddqn" /\ checkpoint_load)
    /\ warmSaved => (exp_name = "ddqn" /\ checkpoint_load)
    /\ pc \in WarmPcs \cup {"warmup_head"} =>
          /\ ~calledGetAction /\ ~calledLearn /\ trainedEps = 0
          /\ warmSaved => lastTransition.action \in 0..6
          /\ (pc = "warmup_head" /\ envCalls) => envState = "done"
    /\ (pc \in LoopPcs /\ checkpoint_load) => counter >= BufferSize
    /\ (pc = "loop_head" /\ trainedEps = 0 /\ ~checkpoint_load) =>
          (counter = 0 /\ ~warmSaved /\ ~envCalls)

C6_Witness ==
    /\ pc = "loop_head" /\ trainedEps = 0 /\ checkpoint_load
    /\ warmSaved /\ counter > BufferSize

\* C7: after every completed training episode `step`, cumulative_score is the
\* arithmetic mean of the scores of the episodes 1..step (lineageTotal / step),
\* in a fresh run and in a run resumed from a record this driver wrote.
C7_RunningAverageIsMean ==
    /\ (pc \in AfterEpisodePcs \cup {"loop_head", "finished"} /\ trainedEps >= 1) =>
          /\ cumulative_score[2] > 0
          /\ cumulative_score[1] * step = lineageTotal * cumulative_score[2]
    /\ ckpt # NoFile =>
          /\ ckpt.cumulative_score[2] > 0
          /\ ckpt.cumulative_score[1] * ckpt.epoch
                = ckptTotal * ckpt.cumulative_score[2]

C7_Witness ==
    /\ checkpoint_load /\ pc = "loop_head" /\ step = 21 /\ trainedEps = 1
    /\ cumulative_score = <<1, 21>>

\* C8: scalars are logged exactly at the positive multiples of 20, and at each
\* logging point episodic_length is the summed duration of exactly the 20
\* episodes step-19..step (it is reset after logging) and scores[-20:] are
\* the scores of exactly those episodes; every epoch in a record is a multiple
\* of 20.
C8_LoggingWindow ==
    /\ pc \in LoopPcs => lastLogStep = LastDue(Completed)
    /\ pc = "log" =>
          /\ step >= 20 /\ step % 20 = 0
          /\ windowEps = Range(step - 19, step)
          /\ episodic_length = windowTicks
          /\ Len(scoreEps) = Len(scores)
          /\ Len(WindowScores(scores)) = 20
          /\ WindowScores(scoreEps) = Range(step - 19, step)
          /\ SumSeq(WindowScores(scores)) = windowReward
    /\ (pc \in LoopPcs /\ lastLogStep > 0) =>
          /\ logged.step = lastLogStep
          /\ logged.reward[2] > 0 /\ logged.length[2] > 0
    /\ (pc \in LoopPcs /\ windowEps = <<>>) => episodic_length = 0
    /\ pc \in LoopPcs => epoch % 20 = 0
    /\ ckpt # NoFile => ckpt.epoch % 20 = 0

C8_Witness ==
    /\ pc = "log" /\ step = 40 /\ Len(scores) = 40 /\ episodic_length = 21

\* C9: if ClientConnection().setup() raises, the run starts no episode (no
\* env.reset, env.step, save_transition or learn), saves no model, writes no
\* record, and ends in an error.
C9_SetupFailureStopsRun ==
    setupFailed =>
        /\ pc \in {"create_env", "error"}
        /\ client = "unbound" /\ envState = "absent"
        /\ ~envCalls /\ ~warmSaved /\ ~calledLearn /\ ~calledGetAction
        /\ nSave = 0 /\ trainedEps = 0
        /\ lastSaveStep = 0 /\ lastDumpStep = 0

C9_Witness == setupFailed /\ pc = "error" /\ checkpoint_load

\* C10: with an exp_name other than 'ddqn' the run stops with an error before
\* the agent is created, the checkpoint loaded or the simulator contacted;
\* every run in the warm-up or training loop has exp_name 'ddqn', and writes a
\* record whenever it saves the model.
C10_OnlyDdqnRuns ==
    /\ (run >= 1 /\ exp_name # "ddqn") =>
          /\ pc \in {"setup_logging", "error", "interrupted"}
          /\ ~agentCreated /\ ~ckptLoaded /\ ~contacted
    /\ pc \in WarmPcs \cup LoopPcs \cup {"warmup_head"} => exp_name = "ddqn"
    /\ lastSaveStep # lastDumpStep => pc = "dump"

C10_Witness == exp_name = "ppo" /\ pc = "error" /\ ~agentCreated

====
